---- MODULE Spec2Model ----
(***************************************************************************)
(* Model of the SilverSurfers Python scanner (src/python-scanner).         *)
(*                                                                         *)
(* Numbers.  Audit scores are Python floats in [0,1].  A score is modelled *)
(* by its numerator over ScoreDen (0.9 is 432, 0.5 is 240, 1/32 is 15).    *)
(* The value returned by calculate_score is a float with two decimals; it  *)
(* is modelled by its number of hundredths (95.15 is 9515).  Where the     *)
(* code divides or multiplies such a value again (the category score of a  *)
(* report), the IEEE-754 double arithmetic is modelled bit for bit, see    *)
(* the section "Doubles" below.                                            *)
(***************************************************************************)
EXTENDS Integers, Sequences, FiniteSets, TLC

\* ---------------------------------------------------------------- bounds
\* number of entries a caller changes in a base mapping before a call
MaxEdits == 1
\* number of elements of one kind (links, buttons, ...) on a scanned page
MaxElements == 1
\* number of requests the service receives in a run
NumRequests == 2
\* last millisecond the clock reaches
MaxClock == 1

\* ------------------------------------------------------- audit catalogue
\* faulty variant of LITE_AUDIT_REFS: viewport weighs 5 instead of 3
LITE_AUDIT_REFS_HeavyViewport ==
    << [id |-> "color-contrast",           weight |-> 5],
       [id |-> "target-size",              weight |-> 5],
       [id |-> "text-font-audit",          weight |-> 5],
       [id |-> "viewport",                 weight |-> 5],
       [id |-> "link-name",                weight |-> 3],
       [id |-> "button-name",              weight |-> 3],
       [id |-> "label",                    weight |-> 3],
       [id |-> "heading-order",            weight |-> 2],
       [id |-> "is-on-https",              weight |-> 2],
       [id |-> "largest-contentful-paint", weight |-> 1],
       [id |-> "cumulative-layout-shift",  weight |-> 1] >>

LITE_AUDIT_REFS ==
    << [id |-> "color-contrast",           weight |-> 5],
       [id |-> "target-size",              weight |-> 5],
       [id |-> "text-font-audit",          weight |-> 5],
       [id |-> "viewport",                 weight |-> 3],
       [id |-> "link-name",                weight |-> 3],
       [id |-> "button-name",              weight |-> 3],
       [id |-> "label",                    weight |-> 3],
       [id |-> "heading-order",            weight |-> 2],
       [id |-> "is-on-https",              weight |-> 2],
       [id |-> "largest-contentful-paint", weight |-> 1],
       [id |-> "cumulative-layout-shift",  weight |-> 1] >>

\* faulty variant of FULL_AUDIT_REFS: the 15-entry table of weight 80
FULL_AUDIT_REFS_Short ==
    << [id |-> "color-contrast",           weight |-> 10],
       [id |-> "target-size",              weight |-> 10],
       [id |-> "viewport",                 weight |-> 10],
       [id |-> "cumulative-layout-shift",  weight |-> 10],
       [id |-> "largest-contentful-paint", weight |-> 5],
       [id |-> "total-blocking-time",      weight |-> 5],
       [id |-> "link-name",                weight |-> 5],
       [id |-> "button-name",              weight |-> 5],
       [id |-> "label",                    weight |-> 5],
       [id |-> "interactive-color-audit",  weight |-> 5],
       [id |-> "is-on-https",              weight |-> 2],
       [id |-> "dom-size",                 weight |-> 2],
       [id |-> "heading-order",            weight |-> 2],
       [id |-> "errors-in-console",        weight |-> 2],
       [id |-> "geolocation-on-start",     weight |-> 2] >>

FULL_AUDIT_REFS ==
    << [id |-> "color-contrast",           weight |-> 10],
       [id |-> "target-size",              weight |-> 10],
       [id |-> "viewport",                 weight |-> 10],
       [id |-> "cumulative-layout-shift",  weight |-> 10],
       [id |-> "text-font-audit",          weight |-> 15],
       [id |-> "layout-brittle-audit",     weight |-> 2],
       [id |-> "flesch-kincaid-audit",     weight |-> 15],
       [id |-> "largest-contentful-paint", weight |-> 5],
       [id |-> "total-blocking-time",      weight |-> 5],
       [id |-> "link-name",                weight |-> 5],
       [id |-> "button-name",              weight |-> 5],
       [id |-> "label",                    weight |-> 5],
       [id |-> "interactive-color-audit",  weight |-> 5],
       [id |-> "is-on-https",              weight |-> 2],
       [id |-> "dom-size",                 weight |-> 2],
       [id |-> "heading-order",            weight |-> 2],
       [id |-> "errors-in-console",        weight |-> 2],
       [id |-> "geolocation-on-start",     weight |-> 2] >>

\* The two tables are module-level lists, shared by every call and put by
\* reference into every report: what they hold now is state.
VARIABLES
    lite_audit_refs,    \* the list LITE_AUDIT_REFS as it is now
    full_audit_refs     \* the list FULL_AUDIT_REFS as it is now

catalogueVars == <<lite_audit_refs, full_audit_refs>>

\* the module has just been imported
CataloguesLoaded ==
    /\ lite_audit_refs = LITE_AUDIT_REFS
    /\ full_audit_refs = FULL_AUDIT_REFS

\* ids of a catalogue
RefIds(audit_refs) == { audit_refs[i].id : i \in 1..Len(audit_refs) }

\* an id that is in neither catalogue (a probe the catalogue does not list)
ForeignAuditId == "unused-css-rules"

AuditIds == RefIds(LITE_AUDIT_REFS) \cup RefIds(FULL_AUDIT_REFS) \cup {ForeignAuditId}

\* ---------------------------------------------------------- audit results
\* scores are numerators over ScoreDen
ScoreDen == 32 * 15

\* Python's None in a "score" field
None == -1

\* An audit result is a Python dict: the set of its keys and, when "score"
\* is one of them, the value stored there (None or a score).
EmptyResult   == [fields |-> {}, score |-> None]
NoScoreResult == [fields |-> {"id", "title"}, score |-> None]
NullResult    == [fields |-> {"id", "title", "score"}, score |-> None]
Scored(s)     == [fields |-> {"id", "title", "score", "numericValue"}, score |-> s]

\* dict.get(key) on an audits mapping: the result, or NoResult when absent
NoResult == [fields |-> {"<absent>"}, score |-> None]
AuditsGet(audits, audit_id) ==
    IF audit_id \in DOMAIN audits THEN audits[audit_id] ELSE NoResult

\* truthiness of "result": None and the empty dict are falsy
Truthy(result) == result # NoResult /\ result.fields # {}

\* result.get("score", 0) and result.get("score")
GetScoreOr0(result) == IF "score" \in result.fields THEN result.score ELSE 0
GetScore(result)    == IF "score" \in result.fields THEN result.score ELSE None

\* ------------------------------------------------------- calculate_score
\* faulty variant of RawScore: the "is None" check of lines 117-118 is
\* missing, a null score is used as it is
RawScoreWithoutNoneCheck(result) ==
    IF Truthy(result) THEN GetScoreOr0(result) ELSE 0

\* faulty variant of RawScore: an audit that was not run counts as passed
RawScoreAbsentIsPerfect(result) ==
    LET score == IF Truthy(result) THEN GetScoreOr0(result) ELSE ScoreDen
    IN  IF Truthy(result) /\ GetScore(result) = None THEN 0 ELSE score

\* lines 116-118: the score one audit contributes
RawScore(result) ==
    LET score == IF Truthy(result) THEN GetScoreOr0(result) ELSE 0
    IN  IF Truthy(result) /\ GetScore(result) = None THEN 0 ELSE score

\* faulty variant of ScoreLoop: an audit without a score is skipped, its
\* weight is not added to total_weight
RECURSIVE ScoreLoopSkipsUnscored(_, _, _, _, _)
ScoreLoopSkipsUnscored(audit_refs, audits, i, total_weighted_score, total_weight) ==
    IF i > Len(audit_refs)
    THEN [total_weighted_score |-> total_weighted_score,
          total_weight         |-> total_weight]
    ELSE LET audit_id == audit_refs[i].id
             weight   == audit_refs[i].weight
             result   == AuditsGet(audits, audit_id)
             score    == RawScore(result)
         IN  IF Truthy(result) /\ GetScore(result) # None
             THEN ScoreLoopSkipsUnscored(audit_refs, audits, i + 1,
                                         total_weighted_score + score * weight,
                                         total_weight + weight)
             ELSE ScoreLoopSkipsUnscored(audit_refs, audits, i + 1,
                                         total_weighted_score, total_weight)

\* lines 106-122: the loop over the catalogue, from entry i on, with the
\* accumulators carried along
\* faulty variant of ScoreLoop: after the catalogue, every other audit of
\* the report is counted too, with weight 1
RECURSIVE SumOfOthers(_, _)
SumOfOthers(audits, ids) ==
    IF ids = {} THEN 0
    ELSE LET id == CHOOSE x \in ids : TRUE
         IN  RawScore(audits[id]) + SumOfOthers(audits, ids \ {id})

RECURSIVE ScoreLoopCountsOthers(_, _, _, _, _)
ScoreLoopCountsOthers(audit_refs, audits, i, total_weighted_score, total_weight) ==
    IF i > Len(audit_refs)
    THEN LET others == DOMAIN audits \ RefIds(audit_refs)
         IN  [total_weighted_score |-> total_weighted_score + SumOfOthers(audits, others),
              total_weight         |-> total_weight + Cardinality(others)]
    ELSE LET audit_id == audit_refs[i].id
             weight   == audit_refs[i].weight
             result   == AuditsGet(audits, audit_id)
             score    == RawScore(result)
         IN  ScoreLoopCountsOthers(audit_refs, audits, i + 1,
                                   total_weighted_score + score * weight,
                                   total_weight + weight)

RECURSIVE ScoreLoop(_, _, _, _, _)
ScoreLoop(audit_refs, audits, i, total_weighted_score, total_weight) ==
    IF i > Len(audit_refs)
    THEN [total_weighted_score |-> total_weighted_score,
          total_weight         |-> total_weight]
    ELSE LET audit_id == audit_refs[i].id
             weight   == audit_refs[i].weight
             result   == AuditsGet(audits, audit_id)
             score    == RawScore(result)
         IN  ScoreLoop(audit_refs, audits, i + 1,
                       total_weighted_score + score * weight,
                       total_weight + weight)

\* faulty variant of PyRound2: the digits after the second are cut off
PyRound2Truncates(num, den) == (100 * num) \div den

\* round(x, 2) of x = num/den >= 0, in hundredths: Python rounds to the
\* nearest hundredth and an exact tie to the even one
PyRound2(num, den) ==
    LET q == (100 * num) \div den
        r == (100 * num) % den
    IN  IF 2 * r > den THEN q + 1
        ELSE IF 2 * r < den THEN q
        ELSE IF q % 2 = 0 THEN q ELSE q + 1

\* line 105: report.get("audits", {})
ReportAudits(report) ==
    IF "audits" \in DOMAIN report THEN report.audits ELSE << >>

\* what "/" does with a zero divisor
ZeroDivisionError == -2

\* round(num / den, 2) in hundredths, the division being Python's
PyDivRound2(num, den) ==
    IF den = 0 THEN ZeroDivisionError ELSE PyRound2(num, den)

\* faulty variant of FinalScore: no "if total_weight > 0"
FinalScoreUnguarded(total_weighted_score, total_weight) ==
    PyDivRound2(100 * total_weighted_score, ScoreDen * total_weight)

\* faulty variant of FinalScore: no "* 100", the score stays a fraction
FinalScoreAsFraction(total_weighted_score, total_weight) ==
    IF total_weight > 0
    THEN PyDivRound2(total_weighted_score, ScoreDen * total_weight)
    ELSE 0

\* lines 125-126: final_score, rounded
FinalScore(total_weighted_score, total_weight) ==
    IF total_weight > 0
    THEN PyDivRound2(100 * total_weighted_score, ScoreDen * total_weight)
    ELSE 0

\* lines 106-126 for a catalogue and an audits mapping; the locals are
\* returned with the value
Aggregate(audit_refs, audits) ==
    LET acc == ScoreLoop(audit_refs, audits, 1, 0, 0)
    IN  [total_weighted_score |-> acc.total_weighted_score,
         total_weight         |-> acc.total_weight,
         value                |-> FinalScore(acc.total_weighted_score,
                                             acc.total_weight)]

\* lines 102-126; the locals of the call are returned with the value
CalcScoreFrame(report, is_lite) ==
    Aggregate(IF is_lite THEN lite_audit_refs ELSE full_audit_refs,
              ReportAudits(report))

calculate_score(report, is_lite) == CalcScoreFrame(report, is_lite).value

\* faulty variant of RefsAfterScoring: the loop takes the entries off the
\* list it walks
RefsAfterScoringConsumed(audit_refs) == << >>

\* lines 103-111: the call binds audit_refs to the module's list and only
\* reads it; this is the list after the call
RefsAfterScoring(audit_refs) == audit_refs

\* faulty variant of AuditsAfterScoring: the lookup is a setdefault, every
\* catalogue id that was missing is stored with score 0
AuditsAfterScoringFillsMissing(audits, audit_refs) ==
    [id \in DOMAIN audits \cup { audit_refs[i].id : i \in 1..Len(audit_refs) } |->
        IF id \in DOMAIN audits THEN audits[id] ELSE Scored(0)]

\* lines 105-118: the call reads the caller's mapping with .get and stores
\* nothing in it; this is the mapping after the call
AuditsAfterScoring(audits, audit_refs) == audits

\* the report argument after the call
ReportAfterScoring(report, audit_refs) ==
    IF "audits" \in DOMAIN report
    THEN [report EXCEPT !.audits = AuditsAfterScoring(report.audits, audit_refs)]
    ELSE report

\* ---------------------------------------------------------------- Doubles
\* Python floats are IEEE-754 doubles.  A natural number below 2^80 is a
\* tuple of four limbs of 20 bits, least significant first; a double is
\* m * 2^e with 2^52 <= m < 2^53 (or m = 0).  The operations below are the
\* correctly rounded ones (round to nearest, ties to even).
Limb == 2^20

BigOf(n) == << n % Limb, n \div Limb, 0, 0 >>

\* a * k for 0 <= k < 2048
BigMulSmall(a, k) ==
    LET p1 == a[1] * k
        p2 == a[2] * k + p1 \div Limb
        p3 == a[3] * k + p2 \div Limb
        p4 == a[4] * k + p3 \div Limb
    IN  << p1 % Limb, p2 % Limb, p3 % Limb, p4 % Limb >>

\* quotient and remainder of a by k, 0 < k < 2048
BigDivSmall(a, k) ==
    LET t4 == a[4]
        t3 == (t4 % k) * Limb + a[3]
        t2 == (t3 % k) * Limb + a[2]
        t1 == (t2 % k) * Limb + a[1]
    IN  [q |-> << t1 \div k, t2 \div k, t3 \div k, t4 \div k >>, r |-> t1 % k]

BigInc(a) ==
    IF a[1] + 1 < Limb THEN << a[1] + 1, a[2], a[3], a[4] >>
    ELSE IF a[2] + 1 < Limb THEN << 0, a[2] + 1, a[3], a[4] >>
    ELSE IF a[3] + 1 < Limb THEN << 0, 0, a[3] + 1, a[4] >>
    ELSE << 0, 0, 0, a[4] + 1 >>

BigZero == << 0, 0, 0, 0 >>
Two52 == << 0, 0, 2^12, 0 >>
Two53 == << 0, 0, 2^13, 0 >>

\* number of bits of a > 0
BitLen(a) ==
    LET top == CHOOSE i \in 1..4 : a[i] # 0 /\ \A j \in (i + 1)..4 : a[j] = 0
        len == CHOOSE b \in 1..20 : 2^(b - 1) <= a[top] /\ a[top] < 2^b
    IN  20 * (top - 1) + len

\* a * 2^k, the result below 2^80
BigShl(a, k) ==
    LET n == k \div 20
        b == k % 20
        moved == [i \in 1..4 |-> IF i > n THEN a[i - n] ELSE 0]
    IN  BigMulSmall(BigMulSmall(moved, 2^(b % 10)), 2^(10 * (b \div 10)))

\* a shifted right by k bits, 0 <= k <= 20: what is left, the last bit
\* shifted out (guard) and whether anything below it was not zero (sticky)
BigShr(a, k, sticky) ==
    IF k = 0 THEN [q |-> a, guard |-> FALSE, sticky |-> sticky]
    ELSE IF k <= 10
    THEN LET h == BigDivSmall(a, 2^k)
         IN  [q      |-> h.q,
              guard  |-> h.r >= 2^(k - 1),
              sticky |-> sticky \/ h.r % 2^(k - 1) # 0]
    ELSE LET l == BigDivSmall(a, 2^(k - 10))
             h == BigDivSmall(l.q, 1024)
         IN  [q      |-> h.q,
              guard  |-> h.r >= 512,
              sticky |-> sticky \/ l.r # 0 \/ h.r % 512 # 0]

DoubleZero == [m |-> BigZero, e |-> 0]

\* the double nearest to (a / d) * 2^e, 0 < d < 2048, a < 2^65: a is
\* scaled to 65 bits, divided, and the quotient cut to 53 bits, rounding
\* to nearest with ties to even
RoundQuotient(a, d, e) ==
    IF a = BigZero THEN DoubleZero
    ELSE LET up   == 65 - BitLen(a)
             qr   == BigDivSmall(BigShl(a, up), d)
             down == BitLen(qr.q) - 53
             cut  == BigShr(qr.q, down, qr.r # 0)
             m    == IF cut.guard /\ (cut.sticky \/ cut.q[1] % 2 = 1)
                     THEN BigInc(cut.q) ELSE cut.q
         IN  IF m = Two53 THEN [m |-> Two52, e |-> e - up + down + 1]
             ELSE [m |-> m, e |-> e - up + down]

\* the float that round(x, 2) returns for the hundredths h: the double
\* nearest to h / 100
DoubleOfHundredths(h) == RoundQuotient(BigOf(h), 100, 0)

\* x / k and x * k on doubles, k a small integer
DoubleDiv(x, k) == RoundQuotient(x.m, k, x.e)
DoubleMul(x, k) == RoundQuotient(BigMulSmall(x.m, k), 1, x.e)

\* q * 2^(-n) rounded to an integer, ties to even; at most twenty bits are
\* shifted out at a time
RECURSIVE RoundToInteger(_, _, _, _)
RoundToInteger(q, n, guard, sticky) ==
    IF n = 0
    THEN IF guard /\ (sticky \/ q[1] % 2 = 1) THEN BigInc(q) ELSE q
    ELSE LET k == IF n < 20 THEN n ELSE 20
             h == BigShr(q, k, sticky \/ guard)
         IN  RoundToInteger(h.q, n - k, h.guard, h.sticky)

\* round(x, 2) of a double 0 <= x < 2^20 / 100, in hundredths
PyRound2OfDouble(x) ==
    IF x.m = BigZero THEN 0
    ELSE RoundToInteger(BigMulSmall(x.m, 100), -x.e, FALSE, FALSE)[1]

\* ------------------------------------------------------------------ state
VARIABLES
    is_lite,    \* calculate_score: the variant flag of the call
    report,     \* calculate_score: the report argument of the call
    edits,      \* entries the caller has changed so far
    last,       \* locals and return value of the latest calculate_score call
    scan_fn,    \* the scan function that is running, or "none"
    scan_lite,  \* its is_lite argument
    scan_pc,    \* the statement it is at
    scan_audits,     \* its local mapping of audit results
    browser,    \* "none", "open" or "closed": the Camoufox browser
    page,       \* "none", "open" or "closed": the page the scan works on
    page_closes,\* number of page.close() calls of the scan
    scan_result      \* what the scan returned or raised

VARIABLES
    loop_owner, \* the requests whose code runs on the event loop thread
    req_pc,     \* per request: "closed", "awaiting" or "responded"
    request,    \* per request: the AuditRequest
    worker,     \* per request: its executor thread's scan, and the outcome
    response,   \* per request: what the client received
    now,        \* time.time() * 1000, in whole milliseconds
    files       \* the files under TEMP_DIR: path -> content

scoreVars == <<is_lite, report, edits, last>>
serviceVars == <<loop_owner, req_pc, request, worker, response, now, files>>
scanVars == <<scan_fn, scan_lite, scan_pc, scan_audits, browser, page, page_closes, scan_result>>
\* example_scanner.py: the flags set when the module is imported, and one
\* call of prepare_scan
VARIABLES
    UC_AVAILABLE,           \* undetected_chromedriver could be imported
    CLOUDSCRAPER_AVAILABLE, \* cloudscraper could be imported
    PLAYWRIGHT_AVAILABLE,   \* playwright could be imported
    prepare_pc,     \* "idle", "auto", "explicit", "returned" or "raised"
    method,         \* request.method, an Optional: the set of its values
    methods,        \* the list of methods the auto branch has built
    tried,          \* how many entries of methods the loop has been through
    invoked,        \* the scan functions called so far, with their outcomes
    prepare_result  \* what prepare_scan returned or raised

\* lighthouse_integration.py: one call of run_lighthouse_audit, the file at
\* report_path and the Node process
VARIABLES
    lh_pc,          \* the statement the call is at
    lh_args,        \* the arguments of the call
    runner_script,  \* lighthouse_runner.js exists next to the module
    report_file,    \* what is at report_path: "absent", "empty", "json", "garbage"
    process,        \* the subprocess: state, returncode, time of its exit
    elapsed,        \* seconds since the wait for the subprocess began
    lh_report,      \* the local variable report, once read
    lh_result       \* what run_lighthouse_audit returned or raised

exampleVars == <<UC_AVAILABLE, CLOUDSCRAPER_AVAILABLE, PLAYWRIGHT_AVAILABLE,
                 prepare_pc, method, methods, tried, invoked, prepare_result>>
lighthouseVars == <<lh_pc, lh_args, runner_script, report_file, process, elapsed,
                    lh_report, lh_result>>
siblingVars == <<exampleVars, lighthouseVars>>
serviceFileVars == <<catalogueVars, scoreVars, scanVars, serviceVars>>
vars == <<catalogueVars, scoreVars, scanVars, serviceVars, siblingVars>>

\* no scan is running
NoReturn == [kind |-> "none"]
ScanIdle ==
    /\ scan_fn = "none" /\ scan_lite = FALSE /\ scan_pc = "idle"
    /\ scan_audits = << >> /\ browser = "none" /\ page = "none"
    /\ page_closes = 0 /\ scan_result = NoReturn

\* the service has just started: no request yet, an empty TEMP_DIR
Slots == 1..NumRequests
NoRequest == [url |-> [scheme |-> "", host |-> << >>], isLiteVersion |-> FALSE]
NoResponse == [kind |-> "none"]
ServiceIdle ==
    /\ loop_owner = {}
    /\ req_pc = [r \in Slots |-> "closed"]
    /\ request = [r \in Slots |-> NoRequest]
    /\ worker = [r \in Slots |-> NoReturn]
    /\ response = [r \in Slots |-> NoResponse]
    /\ now = 0
    /\ files = << >>

\* prepare_scan is not running
NoOutcome == [kind |-> "none"]
PrepareIdle ==
    /\ prepare_pc = "idle"
    /\ method = {}
    /\ methods = << >>
    /\ tried = 0
    /\ invoked = << >>
    /\ prepare_result = NoOutcome

\* run_lighthouse_audit is not running, nothing is at a report path, no
\* subprocess exists
NoArgs == [output_dir |-> "", is_lite |-> FALSE]
NoProcess == [state |-> "none"]
LighthouseIdle ==
    /\ lh_pc = "idle"
    /\ lh_args = NoArgs
    /\ report_file = "absent"
    /\ process = NoProcess
    /\ elapsed = 0
    /\ lh_report = {}
    /\ lh_result = NoOutcome

\* the process of scanner_service.py has not imported the other two files
SiblingsIdle ==
    /\ UC_AVAILABLE = FALSE /\ CLOUDSCRAPER_AVAILABLE = FALSE
    /\ PLAYWRIGHT_AVAILABLE = FALSE
    /\ PrepareIdle
    /\ runner_script = TRUE
    /\ LighthouseIdle

\* ------------------------------------------- callers of calculate_score
C(n, d) == (n * ScoreDen) \div d      \* the score n/d as a numerator

\* faulty variant of PlaceholderScore: the audits that are not measured
\* score nothing
PlaceholderScoreZero == C(0, 10)

\* "score": 0.9 of the audits color-contrast and cumulative-layout-shift,
\* which no probe measures
PlaceholderScore == C(9, 10)

\* every id of the lite catalogue scored 1.0 except three (spec section 8)
LiteScenario ==
    [id \in RefIds(LITE_AUDIT_REFS) |->
        CASE id = "color-contrast"          -> Scored(C(9, 10))
          [] id = "text-font-audit"         -> Scored(C(8, 10))
          [] id = "cumulative-layout-shift" -> Scored(C(9, 10))
          [] OTHER                          -> Scored(C(1, 1))]

\* only color-contrast, scored 1.0 (spec section 8)
OnlyColorContrast == [id \in {"color-contrast"} |-> Scored(C(1, 1))]

AllOnes(audit_refs) == [id \in RefIds(audit_refs) |-> Scored(C(1, 1))]

BaseAudits ==
    { << >>, OnlyColorContrast, LiteScenario,
      AllOnes(LITE_AUDIT_REFS), AllOnes(FULL_AUDIT_REFS) }

\* results a caller stores for one id
EditResults ==
    { EmptyResult, NoScoreResult, NullResult,
      Scored(0), Scored(C(1, 32)), Scored(C(1, 2)), Scored(C(1, 1)) }

Put(audits, audit_id, result) ==
    [id \in DOMAIN audits \cup {audit_id} |->
        IF id = audit_id THEN result ELSE audits[id]]

Remove(audits, audit_id) ==
    [id \in DOMAIN audits \ {audit_id} |-> audits[id]]

\* no call has returned yet
NotCalled == [total_weighted_score |-> 0, total_weight |-> 0, value |-> None]
Called == last # NotCalled

\* a caller holds a variant flag and a report
ScoreInit ==
    /\ is_lite \in BOOLEAN
    /\ \E audits \in BaseAudits : report = [audits |-> audits]
    /\ edits = 0
    /\ last = NotCalled
    /\ ScanIdle
    /\ CataloguesLoaded
    /\ ServiceIdle
    /\ SiblingsIdle

\* the module's lists after a call of calculate_score for the variant
ListsAfterScoring(lite) ==
    /\ lite_audit_refs' = IF lite THEN RefsAfterScoring(lite_audit_refs)
                          ELSE lite_audit_refs
    /\ full_audit_refs' = IF lite THEN full_audit_refs
                          ELSE RefsAfterScoring(full_audit_refs)

\* the list calculate_score binds audit_refs to
RefsOf(lite) == IF lite THEN lite_audit_refs ELSE full_audit_refs

\* calculate_score(argument, is_lite) is called and returns
Scores(argument) ==
    /\ last' = CalcScoreFrame(argument, is_lite)
    /\ report' = ReportAfterScoring(argument, RefsOf(is_lite))
    /\ ListsAfterScoring(is_lite)

\* the caller calls calculate_score(report, is_lite)
CallScore ==
    /\ ~Called
    /\ Scores(report)
    /\ UNCHANGED <<is_lite, edits, scanVars, serviceVars, siblingVars>>

\* the caller stores a result for one audit id and calls calculate_score
SetAudit(audit_id, result) ==
    /\ Called
    /\ edits < MaxEdits
    /\ "audits" \in DOMAIN report
    /\ AuditsGet(report.audits, audit_id) # result
    /\ Scores([audits |-> Put(report.audits, audit_id, result)])
    /\ edits' = edits + 1
    /\ UNCHANGED <<is_lite, scanVars, serviceVars, siblingVars>>

\* the caller drops one audit id and calls calculate_score
RemoveAudit(audit_id) ==
    /\ Called
    /\ edits < MaxEdits
    /\ "audits" \in DOMAIN report
    /\ audit_id \in DOMAIN report.audits
    /\ Scores([audits |-> Remove(report.audits, audit_id)])
    /\ edits' = edits + 1
    /\ UNCHANGED <<is_lite, scanVars, serviceVars, siblingVars>>

\* the caller passes a report that has no "audits" key
OmitAudits ==
    /\ Called
    /\ edits < MaxEdits
    /\ "audits" \in DOMAIN report
    /\ Scores([lighthouseVersion |-> "10.0.0"])
    /\ edits' = edits + 1
    /\ UNCHANGED <<is_lite, scanVars, serviceVars, siblingVars>>

ScoreNext ==
    \/ CallScore
    \/ \E audit_id \in AuditIds, result \in EditResults : SetAudit(audit_id, result)
    \/ \E audit_id \in AuditIds : RemoveAudit(audit_id)
    \/ OmitAudits

SpecScore == ScoreInit /\ [][ScoreNext]_vars

\* ------------------------------------------------------------ the scans
SYNC  == "_run_camoufox_audit_sync"
ASYNC == "perform_accessibility_audit"

Max0(x)     == IF x > 0 THEN x ELSE 0      \* max(0, x)
AtLeast1(n) == IF n > 1 THEN n ELSE 1      \* max(n, 1)

\* 1.0 if small == 0 else max(0, 1 - small / max(total, 1))
TargetScore(small, total) ==
    IF small = 0 THEN ScoreDen
    ELSE Max0(ScoreDen - (ScoreDen * small) \div AtLeast1(total))

\* 1.0 if total == 0 else max(0, 1 - failing / max(total, 1))
RatioScore(failing, total) ==
    IF total = 0 THEN ScoreDen
    ELSE Max0(ScoreDen - (ScoreDen * failing) \div AtLeast1(total))

\* 1.0 if lcp < 2500 else max(0, 1 - (lcp - 2500) / 2500)
LcpScore(lcp) ==
    IF lcp < 2500 THEN ScoreDen
    ELSE Max0(ScoreDen - (ScoreDen * (lcp - 2500)) \div 2500)

\* 1.0 if dom_size < 1500 else max(0, 1 - (dom_size - 1500) / 1500)
DomSizeScore(dom_size) ==
    IF dom_size < 1500 THEN ScoreDen
    ELSE Max0(ScoreDen - (ScoreDen * (dom_size - 1500)) \div 1500)

BoolScore(b) == IF b THEN ScoreDen ELSE 0  \* 1.0 if b else 0.0

\* what a page can answer: (failing, total) counted by one query, or by two
\* independent ones (perform_accessibility_audit counts the total in the
\* parsed HTML and the failing elements in the live page)
OneQuery   == { c \in (0..MaxElements) \X (0..MaxElements) : c[1] <= c[2] }
TwoQueries == (0..MaxElements) \X (0..MaxElements)
Counts     == IF scan_fn = SYNC THEN OneQuery ELSE TwoQueries
LcpSamples     == {0, 2500, 3750, 5000, 10000}
DomSizeSamples == {0, 1500, 2250, 3000, 6000}

\* the statements between two page interactions are one step
ProbePcs ==
    { "target-size", "link-name", "button-name", "label", "heading-order",
      "text-font-audit", "performance", "dom-size", "geolocation-on-start" }

ReportInit ==
    /\ is_lite = FALSE /\ report = [audits |-> << >>] /\ edits = 0
    /\ last = NotCalled
    /\ ScanIdle
    /\ CataloguesLoaded
    /\ ServiceIdle
    /\ SiblingsIdle

\* a caller calls one of the two scan functions; perform_accessibility_audit
\* is handed an open page
StartScan(fn, lite) ==
    /\ scan_pc = "idle"
    /\ scan_fn' = fn /\ scan_lite' = lite
    /\ scan_pc' = IF fn = SYNC THEN "launch" ELSE "goto"
    /\ page' = IF fn = SYNC THEN "none" ELSE "open"
    /\ UNCHANGED <<scan_audits, browser, page_closes, scan_result, scoreVars, catalogueVars, serviceVars, siblingVars>>

\* with Camoufox(headless=True) as browser: page = browser.new_page()
OpenBrowser ==
    /\ scan_pc = "launch"
    /\ browser' = "open" /\ page' = "open"
    /\ scan_pc' = "setup"
    /\ UNCHANGED <<scan_fn, scan_lite, scan_audits, page_closes, scan_result, scoreVars, catalogueVars, serviceVars, siblingVars>>

\* the launch or new_page() raises: the with statement closes a browser
\* that was started
OpenBrowserFails ==
    /\ scan_pc = "launch"
    /\ browser' \in {"none", "closed"}
    /\ scan_result' = [kind |-> "raise"]
    /\ scan_pc' = "raised"
    /\ UNCHANGED <<scan_fn, scan_lite, scan_audits, page, page_closes, scoreVars, catalogueVars, serviceVars, siblingVars>>

\* set_viewport_size, set_extra_http_headers, add_init_script
SetupPage ==
    /\ scan_pc = "setup"
    /\ scan_pc' = "goto"
    /\ UNCHANGED <<scan_fn, scan_lite, scan_audits, browser, page, page_closes,
                   scan_result, scoreVars, catalogueVars, serviceVars, siblingVars>>

\* one of them raises, before the try statement: page.close() is not
\* called, leaving the with statement shuts the browser and its page down
SetupPageFails ==
    /\ scan_pc = "setup"
    /\ browser' = "closed" /\ page' = "closed"
    /\ scan_result' = [kind |-> "raise"]
    /\ scan_pc' = "raised"
    /\ UNCHANGED <<scan_fn, scan_lite, scan_audits, page_closes, scoreVars, catalogueVars, serviceVars, siblingVars>>

\* faulty variant of Raises: the exception leaves _run_camoufox_audit_sync
\* past a page and a browser that nothing closes
RaisesLeavesBrowserOpen ==
    /\ scan_result' = [kind |-> "raise"]
    /\ scan_pc' = "raised"
    /\ UNCHANGED <<page, page_closes, browser>>
    /\ UNCHANGED <<scan_fn, scan_lite, scan_audits, scoreVars, catalogueVars, serviceVars, siblingVars>>

\* an exception inside the scan: _run_camoufox_audit_sync runs its finally
\* clause and leaves the with statement, perform_accessibility_audit just
\* propagates it
Raises ==
    /\ scan_result' = [kind |-> "raise"]
    /\ scan_pc' = "raised"
    /\ IF scan_fn = SYNC
       THEN page' = "closed" /\ page_closes' = page_closes + 1 /\ browser' = "closed"
       ELSE UNCHANGED <<page, page_closes, browser>>
    /\ UNCHANGED <<scan_fn, scan_lite, scan_audits, scoreVars, catalogueVars, serviceVars, siblingVars>>

\* the next statement, with the audits stored on the way
Goes(pc, stored) ==
    /\ scan_pc' = pc
    /\ scan_audits' = stored
    /\ UNCHANGED <<scan_fn, scan_lite, browser, page, page_closes, scan_result, scoreVars, catalogueVars, serviceVars, siblingVars>>

\* page.goto, page.content, BeautifulSoup, audits["color-contrast"]
Navigate ==
    /\ scan_pc = "goto"
    /\ Goes("target-size", Put(<< >>, "color-contrast", Scored(PlaceholderScore)))

NavigateFails == scan_pc = "goto" /\ Raises

\* target-size query, audits["target-size"], audits["viewport"]
ProbeTargetSize(small, total, has_viewport) ==
    /\ scan_pc = "target-size"
    /\ Goes("link-name",
            Put(Put(scan_audits, "target-size", Scored(TargetScore(small, total))),
                "viewport", Scored(BoolScore(has_viewport))))

ProbeLinkName(failing, total) ==
    /\ scan_pc = "link-name"
    /\ Goes("button-name", Put(scan_audits, "link-name", Scored(RatioScore(failing, total))))

ProbeButtonName(failing, total) ==
    /\ scan_pc = "button-name"
    /\ Goes("label", Put(scan_audits, "button-name", Scored(RatioScore(failing, total))))

ProbeLabel(failing, total) ==
    /\ scan_pc = "label"
    /\ Goes("heading-order", Put(scan_audits, "label", Scored(RatioScore(failing, total))))

\* heading query, audits["heading-order"], audits["is-on-https"]
ProbeHeadingOrder(heading_order_valid, is_https) ==
    /\ scan_pc = "heading-order"
    /\ Goes("text-font-audit",
            Put(Put(scan_audits, "heading-order", Scored(BoolScore(heading_order_valid))),
                "is-on-https", Scored(BoolScore(is_https))))

ProbeTextFont(small_text_count, total_text_elements) ==
    /\ scan_pc = "text-font-audit"
    /\ Goes("performance",
            Put(scan_audits, "text-font-audit",
                Scored(RatioScore(small_text_count, total_text_elements))))

\* faulty variant of Placeholders: the audits that are not computed are
\* stored without a score
PlaceholdersNull(stored) ==
    Put(Put(Put(Put(stored, "layout-brittle-audit", NullResult),
                "flesch-kincaid-audit", NullResult),
            "total-blocking-time", NullResult),
        "interactive-color-audit", NullResult)

\* the audits _run_camoufox_audit_sync adds for the full variant before
\* it asks for the DOM size: they are not computed and score 0.0
Placeholders(stored) ==
    Put(Put(Put(Put(stored, "layout-brittle-audit", Scored(0)),
                "flesch-kincaid-audit", Scored(0)),
            "total-blocking-time", Scored(0)),
        "interactive-color-audit", Scored(0))

\* performance query, audits["largest-contentful-paint"],
\* audits["cumulative-layout-shift"]
ProbePerformance(lcp) ==
    /\ scan_pc = "performance"
    /\ LET stored == Put(Put(scan_audits, "largest-contentful-paint", Scored(LcpScore(lcp))),
                         "cumulative-layout-shift", Scored(PlaceholderScore))
       IN  IF scan_fn = SYNC /\ ~scan_lite
           THEN Goes("dom-size", Placeholders(stored))
           ELSE Goes("build", stored)

\* DOM size query, audits["dom-size"], audits["errors-in-console"]
ProbeDomSize(dom_size) ==
    /\ scan_pc = "dom-size"
    /\ Goes("geolocation-on-start",
            Put(Put(scan_audits, "dom-size", Scored(DomSizeScore(dom_size))),
                "errors-in-console", Scored(0)))

\* the geolocation query is a script that returns false
ProbeGeolocation ==
    /\ scan_pc = "geolocation-on-start"
    /\ LET geolocation_requested == FALSE
       IN  Goes("build", Put(scan_audits, "geolocation-on-start",
                             Scored(BoolScore(~geolocation_requested))))

\* a page.evaluate raises
ProbeFails == scan_pc \in ProbePcs /\ Raises

\* the category block of a report
CategoryId(lite)    == IF lite THEN "senior-friendly-lite" ELSE "senior-friendly"
CategoryTitle(lite) == IF lite THEN "Senior Accessibility (Lite)" ELSE "Senior Friendliness"

\* a report whose category score is not brought back to the 0..1 scale
BuiltReportScoreNotDivided(stored, audit_refs, lite, final_score) ==
    [lighthouseVersion |-> "10.0.0",
     categories |->
        [c \in {CategoryId(lite)} |->
            [id        |-> CategoryId(lite),
             title     |-> CategoryTitle(lite),
             score     |-> DoubleOfHundredths(final_score),
             auditRefs |-> audit_refs]],
     audits |-> stored]

\* a report that lists only the catalogue entries whose audit was run
BuiltReportRefsOfStoredAudits(stored, audit_refs, lite, final_score) ==
    [lighthouseVersion |-> "10.0.0",
     categories |->
        [c \in {CategoryId(lite)} |->
            [id        |-> CategoryId(lite),
             title     |-> CategoryTitle(lite),
             score     |-> DoubleDiv(DoubleOfHundredths(final_score), 100),
             auditRefs |-> SelectSeq(audit_refs,
                                     LAMBDA ref : ref.id \in DOMAIN stored)]],
     audits |-> stored]

\* the report both scan functions build; final_score / 100 is a float
\* division
BuiltReport(stored, audit_refs, lite, final_score) ==
    [lighthouseVersion |-> "10.0.0",
     categories |->
        [c \in {CategoryId(lite)} |->
            [id        |-> CategoryId(lite),
             title     |-> CategoryTitle(lite),
             score     |-> DoubleDiv(DoubleOfHundredths(final_score), 100),
             auditRefs |-> audit_refs]],
     audits |-> stored]

\* final_score = calculate_score({"audits": audits}, is_lite), the report,
\* the return; _run_camoufox_audit_sync then closes the page and leaves
\* the with statement
BuildReport ==
    /\ scan_pc = "build"
    /\ scan_audits' = AuditsAfterScoring(scan_audits, RefsOf(scan_lite))
    /\ ListsAfterScoring(scan_lite)
    /\ LET final_score == calculate_score([audits |-> scan_audits], scan_lite)
           audit_refs  == IF scan_lite THEN lite_audit_refs' ELSE full_audit_refs'
           built       == BuiltReport(scan_audits', audit_refs, scan_lite,
                                      final_score)
       IN  scan_result' = IF scan_fn = SYNC
                          THEN [kind |-> "return", success |-> TRUE,
                                report |-> built, score |-> final_score]
                          ELSE [kind |-> "return", report |-> built]
    /\ scan_pc' = "returned"
    /\ IF scan_fn = SYNC
       THEN page' = "closed" /\ page_closes' = page_closes + 1 /\ browser' = "closed"
       ELSE UNCHANGED <<page, page_closes, browser>>
    /\ UNCHANGED <<scan_fn, scan_lite, scoreVars, serviceVars, siblingVars>>

\* the call is over; the next one starts from nothing
EndScan ==
    /\ scan_pc \in {"returned", "raised"}
    /\ scan_fn' = "none" /\ scan_lite' = FALSE /\ scan_pc' = "idle"
    /\ scan_audits' = << >> /\ browser' = "none" /\ page' = "none"
    /\ page_closes' = 0 /\ scan_result' = NoReturn
    /\ UNCHANGED <<scoreVars, catalogueVars, serviceVars, siblingVars>>

ReportNext ==
    \/ \E fn \in {SYNC, ASYNC}, lite \in BOOLEAN : StartScan(fn, lite)
    \/ OpenBrowser
    \/ OpenBrowserFails
    \/ SetupPage
    \/ SetupPageFails
    \/ Navigate
    \/ NavigateFails
    \/ \E c \in OneQuery, has_viewport \in BOOLEAN : ProbeTargetSize(c[1], c[2], has_viewport)
    \/ \E c \in Counts : ProbeLinkName(c[1], c[2])
    \/ \E c \in Counts : ProbeButtonName(c[1], c[2])
    \/ \E c \in Counts : ProbeLabel(c[1], c[2])
    \/ \E heading_order_valid, is_https \in BOOLEAN :
           ProbeHeadingOrder(heading_order_valid, is_https)
    \/ \E c \in Counts : ProbeTextFont(c[1], c[2])
    \/ \E lcp \in LcpSamples : ProbePerformance(lcp)
    \/ \E dom_size \in DomSizeSamples : ProbeDomSize(dom_size)
    \/ ProbeGeolocation
    \/ ProbeFails
    \/ BuildReport
    \/ EndScan

SpecReport == ReportInit /\ [][ReportNext]_vars

\* ------------------------------------------------------------ the service
\* uvicorn.run(..., limit_concurrency=...): LIMIT_CONCURRENCY, default "10"
limit_concurrency == 10

\* A URL is its scheme prefix and the host that follows, the host a list of
\* labels and the separators between them.
UrlSamples ==
    { [scheme |-> "https://", host |-> <<"a", ".", "b">>],
      [scheme |-> "",         host |-> <<"a", "-", "b">>],
      [scheme |-> "http://",  host |-> << >>] }

\* if not url.startswith(("http://", "https://")): url = f"https://{url}"
NormalizedUrl(url) ==
    IF url.scheme \in {"http://", "https://"} THEN url
    ELSE [scheme |-> "https://", host |-> url.host]

\* hostname.replace(".", "-")
ReplaceDots(hostname) ==
    [i \in 1..Len(hostname) |-> IF hostname[i] = "." THEN "-" ELSE hostname[i]]

\* faulty variant of ReportFilename: the suffix goes to the full variant
ReportFilenameSuffixSwapped(url, timestamp, isLiteVersion) ==
    [prefix         |-> "report-",
     hostname       |-> IF url.host # << >> THEN ReplaceDots(url.host)
                        ELSE <<"unknown">>,
     timestamp      |-> timestamp,
     version_suffix |-> IF isLiteVersion THEN "" ELSE "-lite",
     ext            |-> ".json"]

\* f"report-{hostname}-{timestamp}{version_suffix}.json"; urlparse(url)
\* has no hostname when nothing follows the scheme
ReportFilename(url, timestamp, isLiteVersion) ==
    [prefix         |-> "report-",
     hostname       |-> IF url.host # << >> THEN ReplaceDots(url.host)
                        ELSE <<"unknown">>,
     timestamp      |-> timestamp,
     version_suffix |-> IF isLiteVersion THEN "-lite" ELSE "",
     ext            |-> ".json"]

\* os.path.join(temp_dir, report_filename)
ReportPath(report_filename) == [dir |-> "TEMP_DIR", name |-> report_filename]

\* The audits a completed _run_camoufox_audit_sync has stored when every
\* probe of the page scored "probe": two audits are constant 0.9, the five
\* that are not computed are 0.0, the geolocation audit is 1.0.
SyncAudits(lite, probe) ==
    [id \in RefIds(IF lite THEN LITE_AUDIT_REFS ELSE FULL_AUDIT_REFS) |->
        CASE id \in {"color-contrast", "cumulative-layout-shift"} -> Scored(PlaceholderScore)
          [] id \in {"layout-brittle-audit", "flesch-kincaid-audit",
                     "total-blocking-time", "interactive-color-audit",
                     "errors-in-console"}                          -> Scored(0)
          [] id = "geolocation-on-start"                           -> Scored(ScoreDen)
          [] OTHER                                                 -> Scored(probe)]

\* what such a call returns
SyncReturn(lite, probe) ==
    LET final_score == calculate_score([audits |-> SyncAudits(lite, probe)], lite)
    IN  [kind |-> "return", success |-> TRUE,
         report |-> BuiltReport(SyncAudits(lite, probe), RefsOf(lite), lite, final_score),
         score |-> final_score]

\* the pages the service is asked to scan: every probe fails, or passes
PageSamples == {0, ScoreDen}

\* faulty variant of ExecutorThread: the scan is called in the handler
ExecutorThreadIsLoop == "loop"

\* await loop.run_in_executor(executor, _run_camoufox_audit_sync, ...):
\* the thread the scan runs on
ExecutorThread == "worker"

Scanning == [kind |-> "scanning"]
Raised   == [kind |-> "raise"]

\* faulty variant of FailureResponse: the exception leaves the handler and
\* the framework answers for it
FailureResponsePropagates(req) ==
    [kind |-> "Internal Server Error"]

\* the AuditResponse of the except clause; an Optional field is the set of
\* its values
FailureResponse(req) ==
    [kind |-> "AuditResponse", success |-> FALSE,
     reportPath |-> {}, report |-> {},
     isLiteVersion |-> req.isLiteVersion,
     url |-> req.url,
     error |-> {"error_msg"}, errorCode |-> {"AUDIT_FAILED"}]

\* the AuditResponse of a completed audit
SuccessResponse(req, report_path, scan_report) ==
    [kind |-> "AuditResponse", success |-> TRUE,
     reportPath |-> {report_path}, report |-> {scan_report},
     isLiteVersion |-> req.isLiteVersion,
     url |-> NormalizedUrl(req.url),
     error |-> {}, errorCode |-> {}]

Connections == { r \in Slots : req_pc[r] = "awaiting" }

\* requests are numbered as they arrive
Arrives(r) == req_pc[r] = "closed" /\ \A q \in 1..(r - 1) : req_pc[q] # "closed"

\* POST /audit arrives and the handler runs up to its await: the URL is
\* normalised, the device configuration looked up, the scan handed to a
\* thread of a new ThreadPoolExecutor
ReceiveAudit(r, req) ==
    /\ Arrives(r)
    /\ loop_owner = {}
    /\ Cardinality(Connections) < limit_concurrency
    /\ req_pc' = [req_pc EXCEPT ![r] = "awaiting"]
    /\ request' = [request EXCEPT ![r] = req]
    /\ worker' = [worker EXCEPT ![r] = Scanning]
    /\ loop_owner' = IF ExecutorThread = "worker" THEN {} ELSE {r}
    /\ UNCHANGED <<response, now, files, scoreVars, scanVars, catalogueVars, siblingVars>>

\* GET or HEAD /health arrives and is answered
ReceiveHealth(r) ==
    /\ Arrives(r)
    /\ loop_owner = {}
    /\ Cardinality(Connections) < limit_concurrency
    /\ req_pc' = [req_pc EXCEPT ![r] = "responded"]
    /\ response' = [response EXCEPT ![r] =
                       [kind |-> "health", status |-> "healthy",
                        service |-> "python-scanner"]]
    /\ UNCHANGED <<loop_owner, request, worker, now, files,
                   scoreVars, scanVars, catalogueVars, siblingVars>>

\* _run_camoufox_audit_sync returns in its thread
ScanReturns(r, probe) ==
    /\ worker[r] = Scanning
    /\ worker' = [worker EXCEPT ![r] = SyncReturn(request[r].isLiteVersion, probe)]
    /\ loop_owner' = loop_owner \ {r}
    /\ UNCHANGED <<req_pc, request, response, now, files,
                   scoreVars, scanVars, catalogueVars, siblingVars>>

\* _run_camoufox_audit_sync raises in its thread
ScanRaises(r) ==
    /\ worker[r] = Scanning
    /\ worker' = [worker EXCEPT ![r] = Raised]
    /\ loop_owner' = loop_owner \ {r}
    /\ UNCHANGED <<req_pc, request, response, now, files,
                   scoreVars, scanVars, catalogueVars, siblingVars>>

\* the handler goes on after the await and reaches the return of the try
\* block, all of it on the event loop: the checks of the result, the file
\* name, json.dump, the response
AuditCompletes(r) ==
    /\ req_pc[r] = "awaiting"
    /\ loop_owner = {}
    /\ worker[r].kind = "return"
    /\ worker[r].success
    /\ worker[r].score # 0
    /\ LET url         == NormalizedUrl(request[r].url)
           timestamp   == now
           report_path == ReportPath(ReportFilename(url, timestamp,
                                                    request[r].isLiteVersion))
       IN  /\ files' = Put(files, report_path, worker[r].report)
           /\ response' = [response EXCEPT ![r] =
                              SuccessResponse(request[r], report_path, worker[r].report)]
    /\ req_pc' = [req_pc EXCEPT ![r] = "responded"]
    /\ UNCHANGED <<loop_owner, request, worker, now, scoreVars, scanVars, catalogueVars, siblingVars>>

\* the scan raised, or returned without success or with score 0: the
\* handler raises in its try block and answers from its except clause
AuditFails(r) ==
    /\ req_pc[r] = "awaiting"
    /\ loop_owner = {}
    /\ \/ worker[r].kind = "raise"
       \/ worker[r].kind = "return" /\ (~worker[r].success \/ worker[r].score = 0)
    /\ response' = [response EXCEPT ![r] = FailureResponse(request[r])]
    /\ req_pc' = [req_pc EXCEPT ![r] = "responded"]
    /\ UNCHANGED <<loop_owner, request, worker, now, files,
                   scoreVars, scanVars, catalogueVars, siblingVars>>

\* os.makedirs, open or json.dump raises: the file may have been created,
\* with part of the report at most
SaveFails(r, created) ==
    /\ req_pc[r] = "awaiting"
    /\ loop_owner = {}
    /\ worker[r].kind = "return"
    /\ worker[r].success
    /\ worker[r].score # 0
    /\ LET report_path == ReportPath(ReportFilename(NormalizedUrl(request[r].url), now,
                                                    request[r].isLiteVersion))
       IN  files' = IF created THEN Put(files, report_path, [truncated |-> TRUE])
                    ELSE files
    /\ response' = [response EXCEPT ![r] = FailureResponse(request[r])]
    /\ req_pc' = [req_pc EXCEPT ![r] = "responded"]
    /\ UNCHANGED <<loop_owner, request, worker, now, scoreVars, scanVars, catalogueVars, siblingVars>>

\* a millisecond passes
Tick ==
    /\ now < MaxClock
    /\ now' = now + 1
    /\ UNCHANGED <<loop_owner, req_pc, request, worker, response, files,
                   scoreVars, scanVars, catalogueVars, siblingVars>>

AuditInit ==
    /\ is_lite = FALSE /\ report = [audits |-> << >>] /\ edits = 0
    /\ last = NotCalled
    /\ ScanIdle
    /\ CataloguesLoaded
    /\ ServiceIdle
    /\ SiblingsIdle

\* one request, of every kind
AuditNext ==
    \/ \E url \in UrlSamples, isLiteVersion \in BOOLEAN :
           ReceiveAudit(1, [url |-> url, isLiteVersion |-> isLiteVersion])
    \/ ReceiveHealth(1)
    \/ \E probe \in PageSamples : ScanReturns(1, probe)
    \/ ScanRaises(1)
    \/ AuditCompletes(1)
    \/ AuditFails(1)
    \/ \E created \in BOOLEAN : SaveFails(1, created)
    \/ Tick

SpecAudit == AuditInit /\ [][AuditNext]_vars

\* the hosts whose file names can meet, on pages where every probe passes
ConcurrentUrls == { url \in UrlSamples : url.host # << >> }

\* several requests at a time
ServiceNext ==
    \/ \E r \in Slots, url \in ConcurrentUrls, isLiteVersion \in BOOLEAN :
           ReceiveAudit(r, [url |-> url, isLiteVersion |-> isLiteVersion])
    \/ \E r \in Slots : ReceiveHealth(r)
    \/ \E r \in Slots : ScanReturns(r, ScoreDen)
    \/ \E r \in Slots : ScanRaises(r)
    \/ \E r \in Slots : AuditCompletes(r)
    \/ \E r \in Slots : AuditFails(r)
    \/ \E r \in Slots : SaveFails(r, FALSE)
    \/ Tick

SpecService == AuditInit /\ [][ServiceNext]_vars

\* ------------------------------------------------- example_scanner.py
\* a ScanResponse; an Optional field is the set of its values
ScanResponse(success, method_used, error, status_code) ==
    [success     |-> success,
     final_url   |-> IF success THEN {"final_url"} ELSE {},
     html_file   |-> IF success THEN {"html_file_path"} ELSE {},
     method_used |-> method_used,
     error       |-> error,
     status_code |-> status_code]

Returns(scan_response) == [kind |-> "return", result |-> scan_response]
RaisesException == [kind |-> "raise", exc |-> "Exception"]

\* what a call of scan_with_undetected_chrome can come to: the library is
\* missing; the page was saved; an exception inside the try statement; an
\* exception outside it (the ChromeOptions before it, driver.quit() in its
\* finally clause)
scan_with_undetected_chrome ==
    IF ~UC_AVAILABLE
    THEN { Returns(ScanResponse(FALSE, {}, {"undetected-chromedriver not available"}, {})) }
    ELSE { Returns(ScanResponse(TRUE, {"undetected-chromedriver"}, {}, {200})),
           Returns(ScanResponse(FALSE, {"undetected-chromedriver"}, {"str(e)"}, {})),
           RaisesException }

\* scan_with_cloudscraper: the library is missing; status 200; another
\* status; an exception, all of them inside the try statement
scan_with_cloudscraper ==
    IF ~CLOUDSCRAPER_AVAILABLE
    THEN { Returns(ScanResponse(FALSE, {}, {"cloudscraper not available"}, {})) }
    ELSE { Returns(ScanResponse(TRUE, {"cloudscraper"}, {}, {200})),
           Returns(ScanResponse(FALSE, {"cloudscraper"}, {"HTTP 403"}, {403})),
           Returns(ScanResponse(FALSE, {"cloudscraper"}, {"str(e)"}, {})) }

\* scan_with_playwright: the library is missing; the page was saved, with
\* the status of the response; a 403 with too little content; an exception
scan_with_playwright ==
    IF ~PLAYWRIGHT_AVAILABLE
    THEN { Returns(ScanResponse(FALSE, {}, {"playwright not available"}, {})) }
    ELSE { Returns(ScanResponse(TRUE, {"playwright"}, {}, {200})),
           Returns(ScanResponse(TRUE, {"playwright"}, {}, {403})),
           Returns(ScanResponse(FALSE, {"playwright"},
                                {"Insufficient content despite 403"}, {})),
           Returns(ScanResponse(FALSE, {"playwright"}, {"str(e)"}, {})) }

\* the outcomes of the scan function of that name
OutcomesOf(method_func) ==
    CASE method_func = "scan_with_undetected_chrome" -> scan_with_undetected_chrome
      [] method_func = "scan_with_cloudscraper"      -> scan_with_cloudscraper
      [] method_func = "scan_with_playwright"        -> scan_with_playwright

Entry(method_name, method_func) ==
    [method_name |-> method_name, method_func |-> method_func]

\* faulty variant of AutoMethods: playwright is put first
AutoMethodsPlaywrightFirst ==
    (IF PLAYWRIGHT_AVAILABLE
     THEN <<Entry("playwright", "scan_with_playwright")>> ELSE << >>)
    \o (IF UC_AVAILABLE
        THEN <<Entry("undetected-chrome", "scan_with_undetected_chrome")>> ELSE << >>)
    \o (IF CLOUDSCRAPER_AVAILABLE
        THEN <<Entry("cloudscraper", "scan_with_cloudscraper")>> ELSE << >>)

\* methods = []; if UC_AVAILABLE: methods.append(...); ...
AutoMethods ==
    (IF UC_AVAILABLE
     THEN <<Entry("undetected-chrome", "scan_with_undetected_chrome")>> ELSE << >>)
    \o (IF CLOUDSCRAPER_AVAILABLE
        THEN <<Entry("cloudscraper", "scan_with_cloudscraper")>> ELSE << >>)
    \o (IF PLAYWRIGHT_AVAILABLE
        THEN <<Entry("playwright", "scan_with_playwright")>> ELSE << >>)

ExplicitMethods == {"undetected-chrome", "cloudscraper", "playwright"}

\* faulty variant of ExplicitFunction: the cloudscraper branch calls the
\* playwright scan
ExplicitFunctionCopied(method_name) ==
    CASE method_name = "undetected-chrome" -> "scan_with_undetected_chrome"
      [] method_name = "cloudscraper"      -> "scan_with_playwright"
      [] method_name = "playwright"        -> "scan_with_playwright"

\* the elif chain of the explicit methods
ExplicitFunction(method_name) ==
    CASE method_name = "undetected-chrome" -> "scan_with_undetected_chrome"
      [] method_name = "cloudscraper"      -> "scan_with_cloudscraper"
      [] method_name = "playwright"        -> "scan_with_playwright"

\* request.method as clients send it: the default, the three methods, a
\* name that is none of them, null
MethodSamples ==
    { {"auto"}, {"undetected-chrome"}, {"cloudscraper"}, {"playwright"},
      {"lighthouse"}, {} }

HTTPException(status_code) ==
    [kind |-> "raise", exc |-> "HTTPException", status_code |-> status_code]

AllMethodsFailed ==
    Returns(ScanResponse(FALSE, {}, {"All methods failed"}, {}))

Call(method_func, outcome) == [method_func |-> method_func, outcome |-> outcome]

\* POST /scan/prepare arrives: the handler reads the request and takes
\* its branch; a method it does not know is answered at once
ReceivePrepare(m) ==
    /\ prepare_pc = "idle"
    /\ method' = m
    /\ invoked' = << >>
    /\ tried' = 0
    /\ IF m = {"auto"}
       THEN /\ methods' = AutoMethods
            /\ prepare_pc' = "auto"
            /\ prepare_result' = NoOutcome
       ELSE IF m \cap ExplicitMethods # {}
       THEN /\ prepare_pc' = "explicit"
            /\ UNCHANGED <<methods, prepare_result>>
       ELSE /\ prepare_pc' = "raised"
            /\ prepare_result' = HTTPException(400)
            /\ UNCHANGED methods
    /\ UNCHANGED <<UC_AVAILABLE, CLOUDSCRAPER_AVAILABLE, PLAYWRIGHT_AVAILABLE,
                   serviceFileVars, lighthouseVars>>

\* one turn of the loop over methods: the scan function is called; its
\* result is returned if it has success, anything else goes on to the next
\* turn
TryNext(outcome) ==
    /\ prepare_pc = "auto"
    /\ tried < Len(methods)
    /\ outcome \in OutcomesOf(methods[tried + 1].method_func)
    /\ invoked' = Append(invoked, Call(methods[tried + 1].method_func, outcome))
    /\ tried' = tried + 1
    /\ IF outcome.kind = "return" /\ outcome.result.success
       THEN prepare_pc' = "returned" /\ prepare_result' = outcome
       ELSE UNCHANGED <<prepare_pc, prepare_result>>
    /\ UNCHANGED <<UC_AVAILABLE, CLOUDSCRAPER_AVAILABLE, PLAYWRIGHT_AVAILABLE,
                   method, methods, serviceFileVars, lighthouseVars>>

\* the loop is through
AllFailed ==
    /\ prepare_pc = "auto"
    /\ tried = Len(methods)
    /\ prepare_pc' = "returned"
    /\ prepare_result' = AllMethodsFailed
    /\ UNCHANGED <<UC_AVAILABLE, CLOUDSCRAPER_AVAILABLE, PLAYWRIGHT_AVAILABLE,
                   method, methods, tried, invoked, serviceFileVars, lighthouseVars>>

\* return scan_with_...(url, device): what the function returns is
\* returned, what it raises leaves the handler
CallExplicit(outcome) ==
    /\ prepare_pc = "explicit"
    /\ \E method_name \in method :
           /\ outcome \in OutcomesOf(ExplicitFunction(method_name))
           /\ invoked' = <<Call(ExplicitFunction(method_name), outcome)>>
    /\ prepare_result' = outcome
    /\ prepare_pc' = IF outcome.kind = "return" THEN "returned" ELSE "raised"
    /\ UNCHANGED <<UC_AVAILABLE, CLOUDSCRAPER_AVAILABLE, PLAYWRIGHT_AVAILABLE,
                   method, methods, tried, serviceFileVars, lighthouseVars>>

\* the request is over
EndPrepare ==
    /\ prepare_pc \in {"returned", "raised"}
    /\ prepare_pc' = "idle"
    /\ method' = {} /\ methods' = << >> /\ tried' = 0 /\ invoked' = << >>
    /\ prepare_result' = NoOutcome
    /\ UNCHANGED <<UC_AVAILABLE, CLOUDSCRAPER_AVAILABLE, PLAYWRIGHT_AVAILABLE,
                   serviceFileVars, lighthouseVars>>

AllOutcomes ==
    UNION { OutcomesOf(f) : f \in {"scan_with_undetected_chrome",
                                   "scan_with_cloudscraper",
                                   "scan_with_playwright"} }

\* the module is imported, with whatever libraries are installed
PrepareInit ==
    /\ is_lite = FALSE /\ report = [audits |-> << >>] /\ edits = 0
    /\ last = NotCalled
    /\ ScanIdle
    /\ CataloguesLoaded
    /\ ServiceIdle
    /\ UC_AVAILABLE \in BOOLEAN
    /\ CLOUDSCRAPER_AVAILABLE \in BOOLEAN
    /\ PLAYWRIGHT_AVAILABLE \in BOOLEAN
    /\ PrepareIdle
    /\ runner_script = TRUE
    /\ LighthouseIdle

PrepareNext ==
    \/ \E m \in MethodSamples : ReceivePrepare(m)
    \/ \E outcome \in AllOutcomes : TryNext(outcome)
    \/ AllFailed
    \/ \E outcome \in AllOutcomes : CallExplicit(outcome)
    \/ EndPrepare

SpecPrepare == PrepareInit /\ [][PrepareNext]_vars

\* --------------------------------------------- lighthouse_integration.py
\* asyncio.wait_for(process.communicate(), timeout=300)
timeout == 300

\* the directories that exist
Directories == {"/tmp"}

\* output_dir as callers pass it, and is_lite
ArgSamples ==
    { [output_dir |-> d, is_lite |-> l] : d \in {"/tmp", "/missing"}, l \in BOOLEAN }

\* an exception raised inside the try statement, before the except clauses
Exception(exc) == [exc |-> exc]

RuntimeError(message) == [kind |-> "raise", exc |-> "RuntimeError", message |-> message]

\* except asyncio.TimeoutError: ...; except Exception as e: ...
ExceptClauses(e) ==
    IF e.exc = "TimeoutError"
    THEN RuntimeError(<<"Lighthouse audit timed out after 5 minutes">>)
    ELSE RuntimeError(<<"Lighthouse audit failed: ", "str(e)">>)

\* faulty variant of FileAfterFinally: the file is removed where the
\* report has been read, at the end of the try block
FileAfterFinallyOnSuccessOnly(file, outcome) ==
    IF outcome.kind = "return" THEN "absent" ELSE file

\* finally: if os.path.exists(report_path): os.unlink(report_path); the
\* file is the call's own and removing it succeeds
FileAfterFinally(file, outcome) == "absent"

\* the subprocess when wait_for has given up on it: communicate() is
\* cancelled, nothing is sent to the process
ProcessAfterTimeout(proc) == proc

\* run_lighthouse_audit is called: tempfile.NamedTemporaryFile creates an
\* empty file in output_dir, or raises when it cannot, before the try
\* statement
CallLighthouse(args) ==
    /\ lh_pc = "idle"
    /\ lh_args' = args
    /\ IF args.output_dir \in Directories
       THEN /\ report_file' = "empty"
            /\ lh_pc' = "try"
            /\ UNCHANGED lh_result
       ELSE /\ lh_result' = [kind |-> "raise", exc |-> "FileNotFoundError",
                             message |-> <<"str(e)">>]
            /\ lh_pc' = "raised"
            /\ UNCHANGED report_file
    /\ UNCHANGED <<runner_script, process, elapsed, lh_report,
                   serviceFileVars, exampleVars>>

\* if not runner_script.exists(): raise FileNotFoundError
CheckRunner ==
    /\ lh_pc = "try"
    /\ IF runner_script
       THEN lh_pc' = "spawn" /\ UNCHANGED lh_result
       ELSE lh_pc' = "finally" /\ lh_result' = ExceptClauses(Exception("FileNotFoundError"))
    /\ UNCHANGED <<lh_args, runner_script, report_file, process, elapsed, lh_report,
                   serviceFileVars, exampleVars>>

\* asyncio.create_subprocess_exec starts node
Spawn ==
    /\ lh_pc = "spawn"
    /\ process' = [state |-> "running"]
    /\ elapsed' = 0
    /\ lh_pc' = "waiting"
    /\ UNCHANGED <<lh_args, runner_script, report_file, lh_report, lh_result,
                   serviceFileVars, exampleVars>>

\* it raises: there is no node to run
SpawnFails ==
    /\ lh_pc = "spawn"
    /\ lh_result' = ExceptClauses(Exception("FileNotFoundError"))
    /\ lh_pc' = "finally"
    /\ UNCHANGED <<lh_args, runner_script, report_file, process, elapsed, lh_report,
                   serviceFileVars, exampleVars>>

\* time passes while the call waits
Wait ==
    /\ lh_pc = "waiting"
    /\ elapsed < timeout
    /\ elapsed' = elapsed + timeout \div 2
    /\ UNCHANGED <<lh_pc, lh_args, runner_script, report_file, process, lh_report,
                   lh_result, serviceFileVars, exampleVars>>

\* the Node process writes report_path, a report or something else, or
\* removes it, as long as it runs
NodeWrites(content) ==
    /\ process.state = "running"
    /\ report_file # content
    /\ report_file' = content
    /\ UNCHANGED <<lh_pc, lh_args, runner_script, process, elapsed, lh_report,
                   lh_result, serviceFileVars, exampleVars>>

\* the Node process exits
NodeExits(returncode) ==
    /\ process.state = "running"
    /\ process' = [state |-> "exited", returncode |-> returncode, at |-> elapsed]
    /\ UNCHANGED <<lh_pc, lh_args, runner_script, report_file, elapsed, lh_report,
                   lh_result, serviceFileVars, exampleVars>>

\* process.communicate() returns; then the return code is looked at, the
\* report file looked for, read and parsed
ReadReport ==
    /\ lh_pc = "waiting"
    /\ process.state = "exited"
    /\ IF process.returncode # 0
       THEN lh_result' = ExceptClauses(Exception("RuntimeError")) /\ UNCHANGED lh_report
       ELSE IF report_file = "absent"
       THEN lh_result' = ExceptClauses(Exception("FileNotFoundError")) /\ UNCHANGED lh_report
       ELSE IF report_file # "json"
       THEN lh_result' = ExceptClauses(Exception("JSONDecodeError")) /\ UNCHANGED lh_report
       ELSE /\ lh_report' = {"report"}
            /\ lh_result' = [kind |-> "return", report |-> "report"]
    /\ lh_pc' = "finally"
    /\ UNCHANGED <<lh_args, runner_script, report_file, process, elapsed,
                   serviceFileVars, exampleVars>>

\* wait_for gives up after timeout seconds
TimeoutFires ==
    /\ lh_pc = "waiting"
    /\ process.state = "running"
    /\ elapsed >= timeout
    /\ process' = ProcessAfterTimeout(process)
    /\ lh_result' = ExceptClauses(Exception("TimeoutError"))
    /\ lh_pc' = "finally"
    /\ UNCHANGED <<lh_args, runner_script, report_file, elapsed, lh_report,
                   serviceFileVars, exampleVars>>

\* the finally clause, and the call returns or raises
Finally ==
    /\ lh_pc = "finally"
    /\ report_file' = FileAfterFinally(report_file, lh_result)
    /\ lh_pc' = IF lh_result.kind = "return" THEN "returned" ELSE "raised"
    /\ UNCHANGED <<lh_args, runner_script, process, elapsed, lh_report, lh_result,
                   serviceFileVars, exampleVars>>

\* a call, with or without the runner script in place
LighthouseInit ==
    /\ is_lite = FALSE /\ report = [audits |-> << >>] /\ edits = 0
    /\ last = NotCalled
    /\ ScanIdle
    /\ CataloguesLoaded
    /\ ServiceIdle
    /\ UC_AVAILABLE = FALSE /\ CLOUDSCRAPER_AVAILABLE = FALSE
    /\ PLAYWRIGHT_AVAILABLE = FALSE
    /\ PrepareIdle
    /\ runner_script \in BOOLEAN
    /\ LighthouseIdle

LighthouseNext ==
    \/ \E args \in ArgSamples : CallLighthouse(args)
    \/ CheckRunner
    \/ Spawn
    \/ SpawnFails
    \/ Wait
    \/ \E content \in {"absent", "json", "garbage"} : NodeWrites(content)
    \/ \E returncode \in {0, 1} : NodeExits(returncode)
    \/ ReadReport
    \/ TimeoutFires
    \/ Finally

SpecLighthouse == LighthouseInit /\ [][LighthouseNext]_vars

\* ================================================================ claims
RECURSIVE SeqSum(_)
SeqSum(seq) == IF seq = << >> THEN 0 ELSE Head(seq) + SeqSum(Tail(seq))

NoDuplicateId(audit_refs) ==
    \A i, j \in 1..Len(audit_refs) : audit_refs[i].id = audit_refs[j].id => i = j

\* the catalogue of the call in the current state
Catalogue == IF is_lite THEN LITE_AUDIT_REFS ELSE FULL_AUDIT_REFS
WeightOf(audit_refs, audit_id) ==
    SeqSum([i \in 1..Len(audit_refs) |->
              IF audit_refs[i].id = audit_id THEN audit_refs[i].weight ELSE 0])

\* the argument's audits, and the score the claims give an id: its score
\* when present and not null, 0 otherwise
ArgAudits == IF "audits" \in DOMAIN report THEN report.audits ELSE << >>
ClaimedScore(audits, audit_id) ==
    IF /\ audit_id \in DOMAIN audits
       /\ "score" \in audits[audit_id].fields
       /\ audits[audit_id].score # None
    THEN audits[audit_id].score
    ELSE 0
ClaimedD == SeqSum([i \in 1..Len(Catalogue) |-> Catalogue[i].weight])
ClaimedN ==
    SeqSum([i \in 1..Len(Catalogue) |->
              Catalogue[i].weight * ClaimedScore(ArgAudits, Catalogue[i].id)])

\* C1: for either variant and any audits mapping calculate_score returns
\* 100 * N / D rounded to the nearest hundredth, where D is the sum of the
\* weights of all catalogue entries and N the sum of weight * score with 0
\* for an absent or unscored audit; D never leaves an entry out.
C1_WeightedMeanOverWholeCatalogue ==
    Called =>
      /\ last.total_weight = ClaimedD
      /\ last.total_weighted_score = ClaimedN
      /\ LET diff == last.value * (ScoreDen * ClaimedD) - 10000 * ClaimedN
         IN  2 * diff <= ScoreDen * ClaimedD /\ -2 * diff <= ScoreDen * ClaimedD

\* a call with an unscored catalogue audit next to a scored one
C1_Witness ==
    /\ edits = 1
    /\ \E a, b \in RefIds(Catalogue) :
         /\ a \notin DOMAIN ArgAudits
         /\ b \in DOMAIN ArgAudits /\ ArgAudits[b] = NullResult
    /\ \E c \in RefIds(Catalogue) : ClaimedScore(ArgAudits, c) > 0
    /\ last.value > 0

\* C4: the lite catalogue is exactly the 11 entries of the specification,
\* in that order, without a duplicate id, and its weights sum to 33, which
\* is the total weight of every lite call.
C4_LiteCatalogue ==
    /\ LITE_AUDIT_REFS =
         << [id |-> "color-contrast", weight |-> 5],
            [id |-> "target-size", weight |-> 5],
            [id |-> "text-font-audit", weight |-> 5],
            [id |-> "viewport", weight |-> 3],
            [id |-> "link-name", weight |-> 3],
            [id |-> "button-name", weight |-> 3],
            [id |-> "label", weight |-> 3],
            [id |-> "heading-order", weight |-> 2],
            [id |-> "is-on-https", weight |-> 2],
            [id |-> "largest-contentful-paint", weight |-> 1],
            [id |-> "cumulative-layout-shift", weight |-> 1] >>
    /\ Len(LITE_AUDIT_REFS) = 11
    /\ NoDuplicateId(LITE_AUDIT_REFS)
    /\ (Called /\ is_lite) => last.total_weight = 33

C4_Witness == is_lite /\ edits = 1 /\ last.total_weight = 33 /\ last.value > 0

C7_Call == Called /\ ~is_lite /\ report = [audits |-> OnlyColorContrast]

\* C7 as stated: that call has numerator 10, denominator 95, result 10.53.
C7_OnlyColorContrastIs1053 ==
    C7_Call => /\ last.total_weighted_score = 10 * ScoreDen
               /\ last.total_weight = 95
               /\ last.value = 1053

\* C7 as amended: that call has numerator 10, denominator 112 and returns
\* 8.93.
C7_OnlyColorContrastIs893 ==
    C7_Call => /\ last.total_weighted_score = 10 * ScoreDen
               /\ last.total_weight = 112
               /\ last.value = 893

C7_Witness == C7_Call /\ last.value = 893

\* C8: lite variant, color-contrast 0.9, text-font-audit 0.8,
\* cumulative-layout-shift 0.9, every other lite id 1.0: the weighted sum
\* is 31.4, the total weight 33, the result 95.15.
C8_LiteScenarioIs9515 ==
    (Called /\ is_lite /\ report = [audits |-> LiteScenario]) =>
        /\ 10 * last.total_weighted_score = 314 * ScoreDen
        /\ last.total_weight = 33
        /\ last.value = 9515

C8_Witness == is_lite /\ report = [audits |-> LiteScenario] /\ last.value = 9515

\* the unrounded percentage of the latest call lies exactly halfway between
\* two adjacent hundredths
ExactTie ==
    /\ Called
    /\ last.total_weight > 0
    /\ 2 * ((10000 * last.total_weighted_score) % (ScoreDen * last.total_weight))
         = ScoreDen * last.total_weight
LowerHundredth ==
    (10000 * last.total_weighted_score) \div (ScoreDen * last.total_weight)

\* C9: the result is rounded half-up: when the unrounded percentage lies
\* exactly halfway between two hundredths, the upper one is returned.
C9_TiesRoundUp == ExactTie => last.value = LowerHundredth + 1

\* C10 as stated: X in the catalogue, R1 has X scored 0.5, R2 has no X,
\* all else equal: score(R1) - score(R2) = (0.5 * weight(X)) / totalWeight
\* * 100 exactly.  The step below is the call with R2 followed by the call
\* with R1.
C10_Step(X) ==
    /\ Called
    /\ "audits" \in DOMAIN report
    /\ X \in RefIds(Catalogue)
    /\ X \notin DOMAIN report.audits
    /\ report' = [audits |-> Put(report.audits, X, Scored(C(1, 2)))]
C10_DifferenceIsExact ==
    [][ \A X \in AuditIds :
          C10_Step(X) =>
            (last'.value - last.value) * ClaimedD = 5000 * WeightOf(Catalogue, X) ]_vars

\* C10 as amended: the two calls have the same total weight, their weighted
\* sums differ by exactly 0.5 * weight(X), and the two returned scores,
\* each rounded to two decimals, differ from (0.5 * weight(X)) /
\* totalWeight * 100 by at most 0.01.
C10_DifferenceWithinOneHundredth ==
    [][ \A X \in AuditIds :
          C10_Step(X) =>
            /\ last'.total_weight = last.total_weight
            /\ last.total_weight = ClaimedD
            /\ 2 * (last'.total_weighted_score - last.total_weighted_score)
                 = ScoreDen * WeightOf(Catalogue, X)
            /\ LET diff == (last'.value - last.value) * ClaimedD
                           - 5000 * WeightOf(Catalogue, X)
               IN  diff <= ClaimedD /\ -diff <= ClaimedD ]_vars

\* after such a step: lite, viewport (weight 3) alone at 0.5 gives 4.55,
\* and 1.5 / 33 * 100 is 4.5454...
C10_Witness ==
    /\ is_lite /\ edits = 1
    /\ report = [audits |-> [id \in {"viewport"} |-> Scored(C(1, 2))]]
    /\ last.value = 455

\* ------------------------------------------------------- emitted reports
Returned == scan_result.kind = "return"
CategoryKey == IF scan_lite THEN "senior-friendly-lite" ELSE "senior-friendly"
EmittedCategory == scan_result.report.categories[CategoryKey]
\* calculate_score applied to the emitted report's own audits, same variant
Recomputed == calculate_score([audits |-> scan_result.report.audits], scan_lite)

\* C2, as stated: every report built by either scan function has a category
\* under the variant's key, the double product category.score * 100 equals
\* calculate_score of the report's own audits, and a "score" field returned
\* next to the report holds the same value.
C2_CategoryScoreTimes100IsExact ==
    Returned =>
        /\ CategoryKey \in DOMAIN scan_result.report.categories
        /\ DoubleMul(EmittedCategory.score, 100) = DoubleOfHundredths(Recomputed)
        /\ "score" \in DOMAIN scan_result => scan_result.score = Recomputed

\* C2, amended: every report built by either scan function has a category
\* under the variant's key; category.score is the double nearest to
\* calculate_score / 100, so category.score * 100 rounded to two decimals
\* (not the raw double product) equals calculate_score of the report's own
\* audits; a "score" field returned next to the report holds that value.
C2_CategoryScoreTimes100RoundsBack ==
    Returned =>
        /\ CategoryKey \in DOMAIN scan_result.report.categories
        /\ EmittedCategory.score = DoubleDiv(DoubleOfHundredths(Recomputed), 100)
        /\ PyRound2OfDouble(DoubleMul(EmittedCategory.score, 100)) = Recomputed
        /\ "score" \in DOMAIN scan_result => scan_result.score = Recomputed

\* a returned report whose score the double product does not give back
C2_Witness ==
    /\ Returned
    /\ "score" \in DOMAIN scan_result
    /\ scan_result.score > 0
    /\ DoubleMul(EmittedCategory.score, 100) # DoubleOfHundredths(scan_result.score)

\* C3: in every emitted report the category's auditRefs is the whole
\* catalogue of the chosen variant in table order, whichever audit ids the
\* report's audits mapping holds.
C3_AuditRefsIsWholeCatalogue ==
    Returned =>
        EmittedCategory.auditRefs =
            IF scan_lite THEN LITE_AUDIT_REFS ELSE FULL_AUDIT_REFS

\* a full report whose audits mapping lacks ids of the full catalogue
C3_Witness ==
    /\ Returned
    /\ ~scan_lite
    /\ \E i \in 1..Len(EmittedCategory.auditRefs) :
           EmittedCategory.auditRefs[i].id \notin DOMAIN scan_result.report.audits

\* ------------------------------------------------- unscored audits, range
\* the five ways an audit can have no score to give
ZeroForms == { NoResult, EmptyResult, NoScoreResult, NullResult, Scored(0) }

\* the caller replaces one of them by another for X and calls again
C11_Step(X) ==
    /\ Called
    /\ is_lite' = is_lite
    /\ "audits" \in DOMAIN report /\ "audits" \in DOMAIN report'
    /\ AuditsGet(report.audits, X) \in ZeroForms
    /\ AuditsGet(report'.audits, X) \in ZeroForms
    /\ AuditsGet(report.audits, X) # AuditsGet(report'.audits, X)
    /\ \A id \in AuditIds \ {X} :
           AuditsGet(report'.audits, id) = AuditsGet(report.audits, id)

\* C11: for any audits mapping and any catalogue id X the score is the
\* same whether X is absent, an empty result, a result without a "score"
\* field, a result with score null or a result with score 0.
C11_NullVsAbsent ==
    [][ \A X \in RefIds(Catalogue) : C11_Step(X) => last'.value = last.value ]_vars

\* target-size went from absent to a null score next to a scored audit
C11_Witness ==
    /\ Called /\ ~is_lite
    /\ report = [audits |-> Put(OnlyColorContrast, "target-size", NullResult)]
    /\ last.value = 893

\* C12: for both variants and every audits mapping whose scores lie in
\* [0, 1], with any ids absent or null, the returned score lies in
\* [0, 100].
C12_ScoreWithin0And100 ==
    Called => last.value >= 0 /\ last.value <= 10000

\* a call with a null score that returned a score strictly inside the range
C12_Witness ==
    /\ Called
    /\ \E X \in DOMAIN ArgAudits : ArgAudits[X] = NullResult
    /\ last.value > 0 /\ last.value < 10000

\* C13: for both variants calculate_score of an empty audits mapping, and
\* of a report without an "audits" key, returns 0.
C13_EmptyMappingScores0 ==
    (Called /\ ArgAudits = << >>) => last.value = 0

\* a call with a report that has no "audits" key
C13_Witness ==
    /\ Called
    /\ "audits" \notin DOMAIN report
    /\ last.value = 0

\* C14: for both variants, when every catalogue id has a result with score
\* 1.0, calculate_score returns exactly 100.00.
C14_AllOnesScores100 ==
    ( /\ Called
      /\ \A id \in RefIds(Catalogue) :
            /\ id \in DOMAIN ArgAudits
            /\ "score" \in ArgAudits[id].fields
            /\ ArgAudits[id].score = ScoreDen )
    => last.value = 10000

\* the full variant with all 18 audits at 1.0 and one more id stored
C14_Witness ==
    /\ Called /\ ~is_lite /\ edits = 1
    /\ \A id \in RefIds(FULL_AUDIT_REFS) :
           id \in DOMAIN ArgAudits /\ ArgAudits[id] = Scored(ScoreDen)
    /\ ForeignAuditId \in DOMAIN ArgAudits
    /\ last.value = 10000

\* a catalogue with the same ids and every weight 0
ZeroWeights(audit_refs) ==
    [i \in 1..Len(audit_refs) |-> [id |-> audit_refs[i].id, weight |-> 0]]

\* C15: the aggregation never fails: for an empty catalogue and for a
\* catalogue whose weights are all zero the loop ends with total weight 0
\* and the result is 0, not a division by zero; and for any audits mapping
\* with absent ids, null scores or missing score fields no step of the call
\* raises: every audit contributes a number and the value is a score.
C15_AggregationNeverFails ==
    Called =>
        /\ Aggregate(<< >>, ArgAudits).total_weight = 0
        /\ Aggregate(<< >>, ArgAudits).value = 0
        /\ Aggregate(ZeroWeights(Catalogue), ArgAudits).total_weight = 0
        /\ Aggregate(ZeroWeights(Catalogue), ArgAudits).value = 0
        /\ \A i \in 1..Len(Catalogue) :
               RawScore(AuditsGet(ArgAudits, Catalogue[i].id)) # None
        /\ last.value # ZeroDivisionError
        /\ last.value >= 0

\* a call whose mapping holds a result without a "score" field
C15_Witness ==
    /\ Called /\ edits = 1
    /\ \E X \in RefIds(Catalogue) :
           X \in DOMAIN ArgAudits /\ ArgAudits[X] = NoScoreResult
    /\ Aggregate(<< >>, ArgAudits).value = 0

\* --------------------------------------------------------- statelessness
\* the score as a function of the variant and the audits alone, computed
\* from the tables as written in the source
PureScore(lite, audits) ==
    Aggregate(IF lite THEN LITE_AUDIT_REFS ELSE FULL_AUDIT_REFS, audits).value

\* the step in which a scan calls calculate_score and builds its report
C16_Call == scan_pc = "build" /\ scan_pc' = "returned"

C18_NextAccepted(q) ==
    /\ ENABLED ReceiveHealth(q)
    /\ \A url \in ConcurrentUrls, isLiteVersion \in BOOLEAN :
           ENABLED ReceiveAudit(q, [url |-> url, isLiteVersion |-> isLiteVersion])

C18_EventLoopStaysFree ==
    \A r \in Slots :
        worker[r] = Scanning =>
            /\ loop_owner = {}
            /\ req_pc[r] = "awaiting"
            /\ \A q \in Slots :
                   (Arrives(q) /\ Cardinality(Connections) < limit_concurrency) =>
                       C18_NextAccepted(q)
            /\ \A q \in Slots \ {r} :
                   (req_pc[q] = "awaiting" /\ worker[q].kind = "return") =>
                       ENABLED AuditCompletes(q)

\* the first request is still scanning and the audit that arrived after
\* it has been answered with its report
C18_Witness ==
    /\ worker[1] = Scanning
    /\ req_pc[2] = "responded"
    /\ response[2].kind = "AuditResponse"
    /\ response[2].success

\* ----------------------------------------------------------------------
\* C19: when an audit succeeds, the report is written to the file
\* report-<hostname, dots as dashes, or unknown>-<milliseconds now>, then
\* -lite exactly for a lite request, then .json, in the temporary
\* directory, and the response's reportPath is the path of that file.
C19_Hostname(url) ==
    IF Len(url.host) = 0 THEN <<"unknown">>
    ELSE [i \in DOMAIN url.host |-> IF url.host[i] = "." THEN "-" ELSE url.host[i]]

C19_Path(req, timestamp) ==
    [dir  |-> "TEMP_DIR",
     name |-> [prefix         |-> "report-",
               hostname       |-> C19_Hostname(req.url),
               timestamp      |-> timestamp,
               version_suffix |-> IF req.isLiteVersion THEN "-lite" ELSE "",
               ext            |-> ".json"]]

C19_Succeeds(r) ==
    /\ req_pc[r] = "awaiting"
    /\ req_pc'[r] = "responded"
    /\ response'[r].kind = "AuditResponse"
    /\ response'[r].success

C19_ReportFileNamedAfterRequest ==
    [][ \A r \in Slots :
          C19_Succeeds(r) =>
              /\ response'[r].reportPath = {C19_Path(request[r], now)}
              /\ C19_Path(request[r], now) \in DOMAIN files'
              /\ files'[C19_Path(request[r], now)] = worker[r].report
              /\ \A path \in DOMAIN files' \ DOMAIN files :
                     path = C19_Path(request[r], now) ]_vars

\* a lite audit of a host with a dot in its name has succeeded
C19_Witness ==
    /\ req_pc[1] = "responded"
    /\ response[1].kind = "AuditResponse"
    /\ response[1].success
    /\ request[1].isLiteVersion
    /\ "." \in { request[1].url.host[i] : i \in DOMAIN request[1].url.host }
    /\ \E path \in response[1].reportPath :
           /\ path.name.version_suffix = "-lite"
           /\ path.name.hostname = <<"a", "-", "b">>
           /\ path.name.timestamp = now
           /\ path \in DOMAIN files

\* ----------------------------------------------------------------------
\* C20: every audit request is answered with an AuditResponse, whatever
\* failed. A response with success = False has errorCode AUDIT_FAILED, an
\* error, no report and no reportPath, and every failure of the scan gets
\* one; a response with success = True comes only after the scan returned
\* with success and the report was written to the file at reportPath, and
\* it has both report and reportPath.
C20_Answered(r) == req_pc[r] = "responded" /\ request[r] # NoRequest

C20_FailureShape(resp) ==
    /\ resp.errorCode = {"AUDIT_FAILED"}
    /\ resp.error # {}
    /\ resp.report = {}
    /\ resp.reportPath = {}

C20_SuccessShape(r, resp) ==
    /\ worker[r].kind = "return"
    /\ worker[r].success
    /\ resp.report = {worker[r].report}
    /\ Cardinality(resp.reportPath) = 1
    /\ \A path \in resp.reportPath :
           path \in DOMAIN files /\ files[path] = worker[r].report
    /\ resp.error = {}
    /\ resp.errorCode = {}

C20_AlwaysAnAuditResponse ==
    \A r \in Slots :
        C20_Answered(r) =>
            /\ response[r].kind = "AuditResponse"
            /\ IF response[r].success THEN C20_SuccessShape(r, response[r])
               ELSE C20_FailureShape(response[r])
            /\ (worker[r].kind = "raise" \/ ~worker[r].success) => ~response[r].success

\* the scan succeeded, saving the report failed, and the answer is a failure
C20_Witness ==
    /\ C20_Answered(1)
    /\ worker[1].kind = "return"
    /\ worker[1].success
    /\ response[1].kind = "AuditResponse"
    /\ ~response[1].success
    /\ response[1].errorCode = {"AUDIT_FAILED"}

\* ----------------------------------------------------------------------
\* C21: a report returned by _run_camoufox_audit_sync has an audit for
\* each id of its variant's catalogue and for no other id (11 ids for
\* lite, 18 for full); each of them has a score that is a number from 0
\* to 1, never null; the audits that are not computed have the score 0.
C21_NotComputed ==
    { "layout-brittle-audit", "flesch-kincaid-audit", "total-blocking-time",
      "interactive-color-audit", "errors-in-console" }

C27_ScoreAboveZero == (Returned /\ scan_fn = SYNC) => scan_result.score > 0

\* C27: every result _run_camoufox_audit_sync returns has a score above
\* 0, for both variants and whatever the probes of the page found, so the
\* score 0 that perform_audit treats as a failed audit never comes from a
\* scan that ran to its end.
C27_CompletedScanScoresAboveZero ==
    (Returned /\ scan_fn = SYNC) =>
        /\ scan_result.success
        /\ C27_ScoreAboveZero
        /\ scan_result.report.audits["color-contrast"].score = C(9, 10)
        /\ scan_result.report.audits["cumulative-layout-shift"].score = C(9, 10)

\* a scan has returned from a page on which every probe found the worst
C27_Witness ==
    /\ Returned /\ scan_fn = SYNC /\ scan_lite
    /\ \A id \in DOMAIN scan_result.report.audits :
           id \notin {"color-contrast", "cumulative-layout-shift"} =>
               scan_result.report.audits[id].score = 0

\* ----------------------------------------------------------------------
\* the call of _run_camoufox_audit_sync is over
C29_Over == scan_fn = SYNC /\ scan_pc \in {"returned", "raised"}

\* C29 as stated: when _run_camoufox_audit_sync has returned or raised,
\* whichever step failed, the page that browser.new_page() gave has been
\* closed by a call of page.close() and the browser has been shut down.
C29_PageClosedByPageClose ==
    C29_Over =>
        /\ browser # "open"
        /\ page # "open"
        /\ page # "none" => page_closes >= 1

\* the step that ends the call
C29_Exit == scan_fn = SYNC /\ scan_pc' \in {"returned", "raised"}

\* C29 as amended: when _run_camoufox_audit_sync has returned or raised,
\* no page and no browser is open. page.close() has been called, once,
\* when the call ended in navigation, in a probe or at its return; when the
\* set-up of the page failed (viewport, headers, init script) page.close()
\* has not been called and the page went down with the browser; when the
\* launch failed there was no page.
C29_NothingStaysOpen ==
    /\ [](C29_Over => browser # "open" /\ page # "open")
    /\ [][ C29_Exit =>
              /\ scan_pc = "launch" => page' = "none" /\ page_closes' = 0
              /\ scan_pc = "setup"  => page' = "closed" /\ page_closes' = 0
                                       /\ browser' = "closed"
              /\ scan_pc \notin {"launch", "setup"} =>
                     page' = "closed" /\ page_closes' = 1 /\ browser' = "closed" ]_vars

\* the set-up of the page failed: the page is closed, not by page.close()
C29_Witness ==
    /\ C29_Over
    /\ scan_result.kind = "raise"
    /\ page = "closed" /\ page_closes = 0 /\ browser = "closed"

\* ----------------------------------------------------------------------
\* an audit request that has been answered with success
C28_Saved(r) ==
    /\ req_pc[r] = "responded"
    /\ response[r].kind = "AuditResponse"
    /\ response[r].success

\* C28: whatever the interleaving of concurrent requests, two successful
\* audit requests have written their reports to different paths, so that
\* no request's report file is overwritten by another's.
C28_NoSharedReportPath ==
    \A r \in Slots, q \in Slots :
        (r # q /\ C28_Saved(r) /\ C28_Saved(q)) =>
            response[r].reportPath \cap response[q].reportPath = {}

\* ----------------------------------------------------------------------
\* the caller changes the report and calls again with the same variant
C30_Recall ==
    /\ Called
    /\ is_lite' = is_lite
    /\ "audits" \in DOMAIN report /\ "audits" \in DOMAIN report'

C30_HasNumber(result) == "score" \in result.fields /\ result.score # None

\* only X changed, from one numeric score to another
C30_Rescored(X) ==
    /\ C30_Recall
    /\ X \in DOMAIN report.audits /\ X \in DOMAIN report'.audits
    /\ C30_HasNumber(report.audits[X]) /\ C30_HasNumber(report'.audits[X])
    /\ \A id \in AuditIds \ {X} :
           AuditsGet(report'.audits, id) = AuditsGet(report.audits, id)

\* only audits outside the catalogue of the variant changed: one was
\* added, removed or given another result
C30_ForeignChange ==
    /\ C30_Recall
    /\ report'.audits # report.audits
    /\ \A id \in RefIds(Catalogue) :
           AuditsGet(report'.audits, id) = AuditsGet(report.audits, id)

\* C30: calculate_score is monotone in the score of each catalogue audit
\* (raising one score, the rest unchanged, never lowers the returned
\* score) and ignores every audit whose id is not in the catalogue of the
\* variant (adding, removing or changing one leaves the score unchanged).
C30_MonotoneAndIgnoresForeign ==
    [][ /\ \A X \in RefIds(Catalogue) :
              C30_Rescored(X) =>
                  /\ report'.audits[X].score >= report.audits[X].score =>
                         last'.value >= last.value
                  /\ report'.audits[X].score <= report.audits[X].score =>
                         last'.value <= last.value
        /\ C30_ForeignChange => last'.value = last.value ]_vars

\* color-contrast has been raised from 0.9 to 1.0 in the lite scenario and
\* the score has gone up with it
C30_Witness ==
    /\ Called /\ is_lite /\ edits = 1
    /\ "audits" \in DOMAIN report
    /\ report.audits = Put(LiteScenario, "color-contrast", Scored(C(1, 1)))
    /\ last.value > calculate_score([audits |-> LiteScenario], TRUE)

\* ----------------------------------------------------------------------
\* prepare_scan, method "auto"
C22_Order ==
    <<"scan_with_undetected_chrome", "scan_with_cloudscraper", "scan_with_playwright">>

C22_Available(method_func) ==
    CASE method_func = "scan_with_undetected_chrome" -> UC_AVAILABLE
      [] method_func = "scan_with_cloudscraper"      -> CLOUDSCRAPER_AVAILABLE
      [] method_func = "scan_with_playwright"        -> PLAYWRIGHT_AVAILABLE

C22_Succeeded(outcome) == outcome.kind = "return" /\ outcome.result.success

C22_Auto == method = {"auto"} /\ prepare_pc # "idle"

\* C22: with method "auto", prepare_scan calls the scan functions of the
\* libraries that are available in the order undetected-chrome,
\* cloudscraper, playwright; a call that fails or raises is followed by
\* the next one; the first result with success is returned and nothing is
\* called after it; "All methods failed" is returned exactly when every
\* available method has been called and none had success.
C22_AutoTriesInOrder ==
    C22_Auto =>
        LET expected == SelectSeq(C22_Order, C22_Available)
            n        == Len(invoked)
        IN  /\ n <= Len(expected)
            /\ \A k \in 1..n : invoked[k].method_func = expected[k]
            /\ \A k \in 1..(n - 1) : ~C22_Succeeded(invoked[k].outcome)
            /\ prepare_pc # "raised"
            /\ prepare_pc = "auto" => (n > 0 => ~C22_Succeeded(invoked[n].outcome))
            /\ prepare_pc = "returned" =>
                   IF n > 0 /\ C22_Succeeded(invoked[n].outcome)
                   THEN prepare_result = invoked[n].outcome
                   ELSE /\ n = Len(expected)
                        /\ prepare_result.kind = "return"
                        /\ ~prepare_result.result.success
                        /\ prepare_result.result.error = {"All methods failed"}
                        /\ prepare_result.result.method_used = {}
            /\ (prepare_pc = "returned"
                /\ prepare_result.result.error = {"All methods failed"}) =>
                   \A k \in 1..n : ~C22_Succeeded(invoked[k].outcome)

\* the first method raised, the second failed, the third had success and
\* its result was returned
C22_Witness ==
    /\ C22_Auto
    /\ prepare_pc = "returned"
    /\ Len(invoked) = 3
    /\ invoked[1].outcome.kind = "raise"
    /\ invoked[2].outcome.kind = "return" /\ ~invoked[2].outcome.result.success
    /\ prepare_result.result.success
    /\ prepare_result.result.method_used = {"playwright"}

\* ----------------------------------------------------------------------
\* C23: with method "undetected-chrome", "cloudscraper" or "playwright",
\* prepare_scan calls the scan function of that method, once, and no
\* other; what the function returns is the response, also when it has no
\* success (what it raises leaves the handler), and no other method is
\* tried. With any other method but "auto" no scan function is called and
\* HTTP 400 is raised.
C23_FunctionOf ==
    [m \in {"undetected-chrome", "cloudscraper", "playwright"} |->
        CASE m = "undetected-chrome" -> "scan_with_undetected_chrome"
          [] m = "cloudscraper"      -> "scan_with_cloudscraper"
          [] m = "playwright"        -> "scan_with_playwright"]

C24_Over == lh_pc \in {"returned", "raised"}

C25_TimedOut == <<"Lighthouse audit timed out after 5 minutes">>

\* C25: run_lighthouse_audit returns a report only when the subprocess
\* ended within 300 seconds with return code 0 and the report file was
\* there and parsed; in every other case it raises RuntimeError, with the
\* message "Lighthouse audit timed out after 5 minutes" for the timeout
\* and a message that begins "Lighthouse audit failed:" otherwise; no
\* exception of another type leaves the function.
C25_OnlyRuntimeErrorEscapes ==
    /\ [](C24_Over =>
             IF lh_result.kind = "return"
             THEN /\ process.state = "exited"
                  /\ process.at <= 300
                  /\ process.returncode = 0
                  /\ lh_report = {"report"}
             ELSE /\ lh_result.kind = "raise"
                  /\ lh_result.exc = "RuntimeError"
                  /\ \/ lh_result.message = C25_TimedOut
                     \/ Head(lh_result.message) = "Lighthouse audit failed: ")
    /\ [][ (lh_result.kind = "none" /\ lh_result'.kind = "raise") =>
              (lh_result'.message = C25_TimedOut <=>
                  (lh_pc = "waiting" /\ process.state = "running" /\ elapsed >= 300)) ]_vars

\* ----------------------------------------------------------------------
\* C26: once run_lighthouse_audit has raised its timeout error the Node
\* subprocess it started has been killed: it is not running, and the
\* report path, removed by the call, stays removed.
C26_SubprocessKilledOnTimeout ==
    (lh_pc = "raised" /\ lh_result.message = C25_TimedOut) =>
        /\ process.state # "running"
        /\ report_file = "absent"

====
